---- MODULE Spec2Model ----
(***************************************************************************)
(* Ingestion-to-retrieval pipeline of future-compass:                      *)
(*   TextChunker.get_document_chunks   (text_chunker.py)                   *)
(*   ChunkEmbedder                     (chunk_embedder.py)                 *)
(*   TsRAGCollector                    (ts_rag_collector.py)               *)
(*   search_and_filter                 (es_query_handler.py)               *)
(*   process_document, agent_loop      (document_chunker.py)               *)
(* The specifications share the variables: SpecChunk (the chunker over     *)
(* every splitter output), SpecEmbed and SpecEmbedFair (one embedder       *)
(* instance called repeatedly), SpecConc (two instances writing to one     *)
(* index at the same time), SpecRag (one TsRAGCollector.run call),         *)
(* SpecNeedsRag (the need-detection step over many queries) and SpecIngest *)
(* (repeated runs of the ingestion script).                                *)
(***************************************************************************)
EXTENDS Integers, Sequences, FiniteSets, TLC

VARIABLES
    \* ---- TextChunker ----
    raw_chunks,        \* the splitter's output: a list of chunk texts
    document_chunks,   \* the list get_document_chunks returned
    chunked,           \* get_document_chunks has returned
    \* ---- ChunkEmbedder instances and the index they write ----
    index,             \* Elasticsearch: record id -> record body, or NoRec
    epc,               \* per instance: position in embed_and_store_chunks
    chunks,            \* per instance: the argument of the current call
    tasks,             \* per instance: index_chunk tasks of the running gather
    failed_chunks,     \* per instance: self.failed_chunks
    retry_attempt,     \* per instance: local of retry_failed_chunks
    calls,             \* per instance: number of embed_and_store_chunks calls
    attempts,          \* per instance: history, index_chunk runs in this call of
                       \* each chunk not yet stored
    index_at_call,     \* per instance: history, the index when the call began
    last_write,        \* history: how the index_chunk run of the last step ended
    fault_budget,      \* backend failures still to come; Unbounded: any number
    \* ---- one TsRAGCollector.run call ----
    tokens,            \* tokenizer.num_of_tokens of each indexed chunk's text
    agent_docs,        \* the documents attached to the agent
    query,             \* the latest user message, as its list of words
    cpc,               \* position in run
    search_text,       \* the text handed to search_and_filter
    translate_outcome, \* history: how the _maybe_translate call of the last step went
    hits,              \* primary_hits, in rank order
    hit_i,             \* position of the second loop over primary_hits
    selected,          \* the dict `selected`, as its keys in insertion order
    lookups,           \* history: the get_by_id calls and whether each found a record
    expanded,          \* the list _expand_chunks_to_token_budget returned
    response,          \* the response text run returned
    lines,             \* the list `lines` of _build_prompt, which run joins into the response
    \* ---- the ingestion script (document_chunker.py) ----
    document_status,   \* Document.document_status of each document
    es_docs,           \* the records bulk_index wrote, per document
    ipc,               \* position in the ingestion run
    runs,              \* ingestion runs started
    pending,           \* documents the loop of the run has still to visit
    cur_doc,           \* the document process_document is working on
    docs_to_index      \* the list docs_to_index process_document built

chunkerVars == <<raw_chunks, document_chunks, chunked>>
embedVars == <<index, epc, chunks, tasks, failed_chunks, retry_attempt, calls,
               attempts, index_at_call, last_write, fault_budget>>
ragVars == <<tokens, agent_docs, query, cpc, search_text, translate_outcome, hits, hit_i,
             selected, lookups, expanded, response, lines>>
ingestVars == <<document_status, es_docs, ipc, runs, pending, cur_doc, docs_to_index>>
vars == <<chunkerVars, embedVars, ragVars, ingestVars>>

(***************************************************************************)
(* Bounds                                                                  *)
(***************************************************************************)
NumTexts == 3          \* distinct chunk texts
MaxChunks == 4         \* longest splitter output in SpecChunk
MaxEmbedChunks == 2    \* longest chunk list handed to an embedder
MaxCalls == 2          \* embed_and_store_chunks calls per instance
MaxFaults == 2         \* backend failures while two instances run concurrently
MaxHits == 3           \* longest list of search hits (at most TOP_K)
MaxLookupFaults == 1   \* get_by_id calls of one run that fail
MaxWords == 4          \* longest query _needs_rag is tried on, in words
MaxIngestChunks == 2   \* most meaningful chunks of a document in an ingestion run
MaxRuns == 2           \* ingestion runs (agent_loop or main)

Texts == 1..NumTexts
DocumentIds == {"doc1", "doc2"}
\* Python's None where a hash is expected.
None == <<"None", 0>>

\* All sequences over S of length at most n.
RECURSIVE SeqsUpTo(_, _)
SeqsUpTo(S, n) ==
    IF n = 0 THEN {<<>>}
    ELSE LET shorter == SeqsUpTo(S, n - 1)
         IN shorter \cup {Append(s, x) : s \in {t \in shorter : Len(t) = n - 1}, x \in S}

(***************************************************************************)
(* TextChunker                                                             *)
(***************************************************************************)
\* sha256(chunk_text).hexdigest(): a function of the text alone, injective
\* on the texts of the model.
generate_chunk_hash(chunk_text) == <<"sha256", chunk_text>>

\* The DocumentChunk built for position index (0-based) of the list cs.
DocumentChunkAt_selflink(document_id, cs, index0, now) ==
    [document_id |-> document_id,
     text |-> cs[index0 + 1],
     prev_chunk_hash |-> IF index0 = 0 THEN None
                         ELSE generate_chunk_hash(cs[index0]),
     next_chunk_hash |-> IF index0 = Len(cs) - 1 THEN None
                         ELSE generate_chunk_hash(cs[index0 + 1]),
     hash |-> generate_chunk_hash(cs[index0 + 1]),
     chunk_sequence |-> index0,
     processed_at |-> now]
DocumentChunkAt(document_id, cs, index0, now) ==
    [document_id |-> document_id,
     text |-> cs[index0 + 1],
     prev_chunk_hash |-> IF index0 = 0 THEN None
                         ELSE generate_chunk_hash(cs[index0]),
     next_chunk_hash |-> IF index0 = Len(cs) - 1 THEN None
                         ELSE generate_chunk_hash(cs[index0 + 2]),
     hash |-> generate_chunk_hash(cs[index0 + 1]),
     chunk_sequence |-> index0,
     processed_at |-> now]

get_document_chunks(document_id, cs, now) ==
    [i \in 1..Len(cs) |-> DocumentChunkAt(document_id, cs, i - 1, now)]

GetDocumentChunks ==
    /\ ~chunked
    /\ \E d \in DocumentIds :
         document_chunks' = get_document_chunks(d, raw_chunks, 1)
    /\ chunked' = TRUE
    /\ UNCHANGED <<raw_chunks, embedVars, ragVars, ingestVars>>

(***************************************************************************)
(* ChunkEmbedder                                                           *)
(***************************************************************************)
Embedders == {1, 2}
max_retries == 10

NoRec == [hash |-> None]
Unbounded == 0 - 1

\* embed_query(text): the vector the embedding model returns for a text.
embed_text(text) == <<"vec", text>>

\* datetime.now() of the chunker run that feeds call number n of instance e.
Now(e, n) == 10 * e + n

\* chunks.sort(key=lambda x: x.chunk_sequence): insertion of each element
\* into the sorted prefix (stable).
RECURSIVE SortBySequence(_)
SortBySequence(cs) ==
    IF Len(cs) <= 1 THEN cs
    ELSE LET rest == SortBySequence(SubSeq(cs, 1, Len(cs) - 1))
             x == cs[Len(cs)]
             k == Cardinality({i \in 1..Len(rest) :
                                 rest[i].chunk_sequence <= x.chunk_sequence})
         IN SubSeq(rest, 1, k) \o <<x>> \o SubSeq(rest, k + 1, Len(rest))

\* The body index_chunk prepares for Elasticsearch (lines 102-111).
EsDocument(chunk) ==
    [text |-> chunk.text,
     embedding |-> embed_text(chunk.text),
     document_id |-> chunk.document_id,
     chunk_sequence |-> chunk.chunk_sequence,
     prev_chunk_hash |-> chunk.prev_chunk_hash,
     next_chunk_hash |-> chunk.next_chunk_hash,
     hash |-> chunk.hash,
     processed_at |-> chunk.processed_at]

\* op_type of the es_client.index call.
op_type_index == "index"
op_type == "create"

\* Elasticsearch's index API for one id: with op_type "create" an existing id
\* is a ConflictError and the record stays; with "index" the body replaces it.
EsIndex(idx, id, body, op) ==
    IF op = "create" /\ idx[id] # NoRec
    THEN [result |-> "conflict", index |-> idx]
    ELSE [result |-> "created", index |-> [idx EXCEPT ![id] = body]]

\* self.failed_chunks.append(chunk). The tasks of a gather end in any order,
\* so every order of the same appended chunks arises; the list is kept in one
\* representative order (by processed_at, then chunk_sequence), duplicates
\* kept.
ChunkKey(c) == 10 * c.processed_at + c.chunk_sequence
ListAppend(failed, chunk) ==
    LET k == Cardinality({i \in 1..Len(failed) : ChunkKey(failed[i]) <= ChunkKey(chunk)})
    IN SubSeq(failed, 1, k) \o <<chunk>> \o SubSeq(failed, k + 1, Len(failed))

\* What the ConflictError handler of index_chunk does with failed_chunks.
OnConflict_report(failed, chunk) == ListAppend(failed, chunk)
OnConflict(failed, chunk) == failed

\* What the handler of an embedding failure does with failed_chunks.
OnEmbedError_drop(failed, chunk) == failed
OnEmbedError(failed, chunk) == ListAppend(failed, chunk)

\* What the handler of any other write failure does with failed_chunks.
OnWriteError(failed, chunk) == ListAppend(failed, chunk)

\* The test of the while loop of retry_failed_chunks.
RetryCondition_offbyone(failed, attempt) == failed # <<>> /\ attempt <= max_retries
RetryCondition(failed, attempt) == failed # <<>> /\ attempt < max_retries

NewTasks(cs) == [i \in 1..Len(cs) |-> [chunk |-> cs[i], done |-> FALSE]]

AllDone(e) == \A i \in 1..Len(tasks[e]) : tasks[e][i].done

Seen(e, c) == IF c \in DOMAIN attempts[e] THEN attempts[e][c] ELSE 0

Bump(e, c) ==
    [x \in DOMAIN attempts[e] \cup {c} |-> IF x = c THEN Seen(e, c) + 1 ELSE attempts[e][x]]

Forget(e, c) == [x \in DOMAIN attempts[e] \ {c} |-> attempts[e][x]]

\* embed_and_store_chunks up to the first gather: sort, then one index_chunk
\* task per chunk.
EmbedAndStoreChunks(e) ==
    /\ epc[e] = "idle"
    /\ calls[e] < MaxCalls
    /\ LET cs == SortBySequence(get_document_chunks("doc1", raw_chunks, Now(e, calls[e] + 1)))
       IN /\ chunks' = [chunks EXCEPT ![e] = cs]
          /\ tasks' = [tasks EXCEPT ![e] = NewTasks(cs)]
    /\ calls' = [calls EXCEPT ![e] = @ + 1]
    /\ attempts' = [attempts EXCEPT ![e] = <<>>]
    /\ index_at_call' = [index_at_call EXCEPT ![e] = index]
    /\ epc' = [epc EXCEPT ![e] = "initial"]
    /\ UNCHANGED <<index, failed_chunks, retry_attempt, fault_budget, chunkerVars, ragVars, ingestVars>>
    /\ last_write' = "none"

\* One index_chunk task, from its start to its end.
IndexChunk(e, i) ==
    /\ epc[e] \in {"initial", "retry"}
    /\ i \in 1..Len(tasks[e])
    /\ ~tasks[e][i].done
    /\ LET c == tasks[e][i].chunk IN
       /\ tasks' = [tasks EXCEPT ![e][i].done = TRUE]
       /\ \/ \* embed_text raises
             /\ fault_budget # 0
             /\ fault_budget' = IF fault_budget = Unbounded THEN Unbounded ELSE fault_budget - 1
             /\ failed_chunks' = [failed_chunks EXCEPT ![e] = OnEmbedError(@, c)]
             /\ last_write' = "embed_failed"
             /\ attempts' = [attempts EXCEPT ![e] = Bump(e, c)]
             /\ UNCHANGED index
          \/ \* the write raises something other than ConflictError
             /\ fault_budget # 0
             /\ fault_budget' = IF fault_budget = Unbounded THEN Unbounded ELSE fault_budget - 1
             /\ failed_chunks' = [failed_chunks EXCEPT ![e] = OnWriteError(@, c)]
             /\ last_write' = "write_failed"
             /\ attempts' = [attempts EXCEPT ![e] = Bump(e, c)]
             /\ UNCHANGED index
          \/ \* Elasticsearch answers the write
             LET r == EsIndex(index, c.hash, EsDocument(c), op_type) IN
             /\ index' = r.index
             /\ last_write' = r.result
             /\ failed_chunks' = [failed_chunks EXCEPT ![e] =
                                    IF r.result = "conflict" THEN OnConflict(@, c) ELSE @]
             /\ attempts' = [attempts EXCEPT ![e] =
                               IF Seen(e, c) >= max_retries + 1 THEN Bump(e, c) ELSE Forget(e, c)]
             /\ UNCHANGED fault_budget
    /\ UNCHANGED <<epc, chunks, retry_attempt, calls, index_at_call, chunkerVars, ragVars, ingestVars>>

\* asyncio.gather of the first pass returns; retry_failed_chunks starts.
InitialGatherDone(e) ==
    /\ epc[e] = "initial"
    /\ AllDone(e)
    /\ epc' = [epc EXCEPT ![e] = "retry_loop"]
    /\ retry_attempt' = [retry_attempt EXCEPT ![e] = 0]
    /\ UNCHANGED <<index, chunks, tasks, failed_chunks, calls, attempts, index_at_call,
                   fault_budget, chunkerVars, ragVars, ingestVars>>
    /\ last_write' = "none"

\* One pass of the while loop's test and body up to the gather.
RetryRound(e) ==
    /\ epc[e] = "retry_loop"
    /\ RetryCondition(failed_chunks[e], retry_attempt[e])
    /\ retry_attempt' = [retry_attempt EXCEPT ![e] = @ + 1]
    /\ tasks' = [tasks EXCEPT ![e] = NewTasks(failed_chunks[e])]
    /\ failed_chunks' = [failed_chunks EXCEPT ![e] = <<>>]
    /\ epc' = [epc EXCEPT ![e] = "retry"]
    /\ UNCHANGED <<index, chunks, calls, attempts, index_at_call,
                   fault_budget, chunkerVars, ragVars, ingestVars>>
    /\ last_write' = "none"

RetryGatherDone(e) ==
    /\ epc[e] = "retry"
    /\ AllDone(e)
    /\ epc' = [epc EXCEPT ![e] = "retry_loop"]
    /\ UNCHANGED <<index, chunks, tasks, failed_chunks, retry_attempt, calls, attempts,
                   index_at_call, fault_budget, chunkerVars, ragVars, ingestVars>>
    /\ last_write' = "none"

\* The while test fails: retry_failed_chunks and embed_and_store_chunks return.
RetryExit(e) ==
    /\ epc[e] = "retry_loop"
    /\ ~RetryCondition(failed_chunks[e], retry_attempt[e])
    /\ epc' = [epc EXCEPT ![e] = "idle"]
    /\ UNCHANGED <<index, chunks, tasks, failed_chunks, retry_attempt, calls, attempts,
                   index_at_call, fault_budget, chunkerVars, ragVars, ingestVars>>
    /\ last_write' = "none"

(***************************************************************************)
(* TsRAGCollector                                                          *)
(***************************************************************************)
TOP_K == 5
MAX_TOKENS == 1000

\* The documents of the index and the number of chunks of each.
IndexedDocs == {"doc1", "doc2"}
DocLen(d) == IF d = "doc1" THEN 5 ELSE 1
Corpus == {<<d, i>> : d \in IndexedDocs, i \in 0..4} \cap
          {c \in IndexedDocs \X (0..4) : c[2] < DocLen(c[1])}
TokenChoices == {120, 600}

\* The id of an indexed chunk record.
ChunkHash(c) == <<"sha256", c[1], c[2]>>
Empty == <<"", "", 0>>

\* The _source of the record of chunk c: a chain of prev/next links per
\* document.
EsSource(c) ==
    [chunk_hash |-> ChunkHash(c),
     chunk_text |-> c,
     document_id |-> c[1],
     chunk_sequence |-> c[2],
     prev_chunk_hash |-> IF c[2] = 0 THEN Empty ELSE ChunkHash(<<c[1], c[2] - 1>>),
     next_chunk_hash |-> IF c[2] = DocLen(c[1]) - 1 THEN Empty
                         ELSE ChunkHash(<<c[1], c[2] + 1>>)]

\* get_by_id: point lookup of one record by id; a set with the record, or
\* empty when there is none.
get_by_id(h) == {c \in Corpus : ChunkHash(c) = h}

\* ---- search_and_filter ----
\* The agent of the collector, and the agent_ids of the record of chunk c:
\* the agent whose ingestion run indexed the chunk's document.
AgentId == "agent-A"
AgentIds(c, attached) == IF c[1] \in attached THEN {AgentId} ELSE {"agent-B"}

\* metadata_filters as _es_search passes them.
MetadataFilters == [k \in {"agent_id"} |-> AgentId]

\* The filter loop: a term clause for each filter whose key is one of the
\* keyword fields; a filter on any other key adds no clause.
KeywordFields == {"document_id", "prev_chunk_hash", "next_chunk_hash", "hash"}
FilterClauses(metadata_filters) ==
    [k \in (DOMAIN metadata_filters) \cap KeywordFields |-> metadata_filters[k]]

RecordField(c, k) ==
    CASE k = "document_id" -> c[1]
      [] k = "hash" -> ChunkHash(c)
      [] k = "prev_chunk_hash" -> EsSource(c).prev_chunk_hash
      [] k = "next_chunk_hash" -> EsSource(c).next_chunk_hash

\* The index after a search request or a get request: both return records
\* and write nothing.
EsRead_refresh(idx) == [d \in DOMAIN idx |-> <<>>]
EsRead(idx) == idx

\* The chunks whose record is in the index idx (document -> list of records).
IndexedChunks(idx) ==
    {c \in Corpus : \E k \in DOMAIN idx[c[1]] : idx[c[1]][k] = EsSource(c)}

\* A record passes the bool query when it satisfies every term clause.
Matches(c, clauses) == \A k \in DOMAIN clauses : RecordField(c, k) = clauses[k]

\* ---- TsLogger: which calls its method signatures accept ----
\* info, debug and warning take the message alone; error takes the message and
\* an optional `exception`, positionally or by keyword.
TsLoggerAccepts(method, positional, keywords) ==
    IF method = "error"
    THEN positional \in {1, 2} /\ keywords \subseteq {"exception"}
    ELSE positional = 1 /\ keywords = {}

\* The except clause of run: logger.error("...%s", exc, exc_info=True), then
\* the empty response. A TypeError of the logger call leaves run.
ExceptHandler ==
    IF TsLoggerAccepts("error", 2, {"exc_info"}) THEN "returned" ELSE "raised"

\* logger.warning("Agent %s has no linked documents ...", self._agent_id) and
\* the empty response, inside the try block.
NoDocsBranch ==
    IF TsLoggerAccepts("warning", 2, {}) THEN "returned" ELSE ExceptHandler

\* logger.debug("No ES hits ...") and the empty response.
NoHitsBranch ==
    IF TsLoggerAccepts("debug", 1, {}) THEN "returned" ELSE ExceptHandler

\* ---- _maybe_translate ----
Languages == {"en", "ar"}
NotTranslated == [detection |-> "none", translation |-> "none"]
\* detect_langs(text)[0].lang, with "en" in the except branch.
Detected(d) == IF d = "failed" THEN "en" ELSE d

\* ---- _needs_rag ----
PunctuationOnly == {"!", ".", ","}
\* str.lower() of one word.
Lower(w) ==
    CASE w = "Hi" -> "hi"
      [] w = "Explain" -> "explain"
      [] OTHER -> w

\* Removal of the trailing characters " .,!" of a word that holds other
\* characters too.
StripTrailing(w) ==
    CASE w = "thanks!" -> "thanks"
      [] OTHER -> w

RECURSIVE DropLeading(_)
DropLeading(q) ==
    IF q # <<>> /\ q[1] \in PunctuationOnly THEN DropLeading(Tail(q)) ELSE q

RECURSIVE DropTrailing(_)
DropTrailing(q) ==
    IF q # <<>> /\ q[Len(q)] \in PunctuationOnly
    THEN DropTrailing(SubSeq(q, 1, Len(q) - 1)) ELSE q

\* query.lower().strip(" .,!"), on the list of words: strip removes
\* characters at the two ends of the string only, so words of punctuation
\* alone go at both ends and the last word left loses its trailing
\* punctuation (no word of the model starts with punctuation).
LowerStrip(q) ==
    LET core == DropTrailing(DropLeading(q))
    IN [i \in 1..Len(core) |->
          IF i = Len(core) THEN StripTrailing(Lower(core[i])) ELSE Lower(core[i])]

simple_phrases == {<<"thanks">>, <<"thank", "you">>, <<"okay">>, <<"hi">>, <<"hello">>}

needs_rag_length_only(q) ==
    IF q = <<>> \/ Len(q) < 4 THEN FALSE
    ELSE TRUE
needs_rag(q) ==
    IF q = <<>> \/ Len(q) < 4 THEN FALSE
    ELSE IF LowerStrip(q) \in simple_phrases THEN FALSE
    ELSE TRUE

Queries ==
    {<<>>, <<"Hi">>, <<"thanks!">>, <<"ok">>, <<"hi", "!", "!", "!">>,
     <<"Explain", "total", "depravity", "please">>}

\* The words of the queries _needs_rag is tried on, and those queries.
Words == {"Hi", "thanks!", "ok", "okay", "thank", "you", "!", "grace"}
QueryInputs == SeqsUpTo(Words, MaxWords)

\* ---- _expand_chunks_to_token_budget ----
RECURSIVE total_tokens(_)
total_tokens(sel) ==
    IF sel = <<>> THEN 0 ELSE tokens[sel[1]] + total_tokens(Tail(sel))

SelectedHashes(sel) == {ChunkHash(sel[i]) : i \in 1..Len(sel)}

\* add_chunk: a chunk whose chunk_hash is not yet a key is added at the end.
add_chunk(sel, c) ==
    IF ChunkHash(c) \in SelectedHashes(sel) THEN sel ELSE Append(sel, c)

\* The first loop: every primary hit is added, whatever the token total.
RECURSIVE AddPrimaries_budgeted(_, _)
AddPrimaries_budgeted(sel, hs) ==
    IF hs = <<>> \/ total_tokens(sel) >= MAX_TOKENS THEN sel
    ELSE AddPrimaries_budgeted(add_chunk(sel, hs[1]), Tail(hs))
RECURSIVE AddPrimaries(_, _)
AddPrimaries(sel, hs) ==
    IF hs = <<>> THEN sel ELSE AddPrimaries(add_chunk(sel, hs[1]), Tail(hs))

\* The test before each neighbour fetch (line 210), after the hash test.
NeighbourBudget_unchecked(sel) == TRUE
NeighbourBudget(sel) == total_tokens(sel) < MAX_TOKENS

\* _fetch_chunk_by_hash when get_by_id raises or returns null (then
\* doc.get raises): the except clause returns None.
OnLookupFailure_propagate == "raise"
OnLookupFailure == "None"

\* One neighbour of a hit: whether it is fetched, and `selected` afterwards.
\* found: whether _fetch_chunk_by_hash returns the record rather than None.
Fetches_unselected(sel, neighbour_hash) ==
    neighbour_hash # Empty /\ neighbour_hash \notin SelectedHashes(sel) /\ NeighbourBudget(sel)
Fetches(sel, neighbour_hash) == neighbour_hash # Empty /\ NeighbourBudget(sel)

AfterNeighbour(sel, neighbour_hash, found) ==
    IF Fetches(sel, neighbour_hash) /\ found /\ get_by_id(neighbour_hash) # {}
    THEN add_chunk(sel, CHOOSE c \in get_by_id(neighbour_hash) : TRUE)
    ELSE sel

LoggedLookup(log, sel, neighbour_hash, found) ==
    IF Fetches(sel, neighbour_hash)
    THEN Append(log, [hash |-> neighbour_hash,
                      found |-> found /\ get_by_id(neighbour_hash) # {}])
    ELSE log

\* lst.sort(key=chunk_sequence) of the chunks of one document, kept in
\* insertion order otherwise.
OfDocument(sel, d) == SelectSeq(sel, LAMBDA c : c[1] = d)

SortBySeqNo_insertion(cs) == cs
RECURSIVE SortBySeqNo(_)
SortBySeqNo(cs) ==
    IF Len(cs) <= 1 THEN cs
    ELSE LET rest == SortBySeqNo(SubSeq(cs, 1, Len(cs) - 1))
             x == cs[Len(cs)]
             k == Cardinality({i \in 1..Len(rest) : rest[i][2] <= x[2]})
         IN SubSeq(rest, 1, k) \o <<x>> \o SubSeq(rest, k + 1, Len(rest))

\* The keys of `grouped`, in first-encounter order.
RECURSIVE GroupOrder(_, _)
GroupOrder(sel, seen) ==
    IF sel = <<>> THEN <<>>
    ELSE IF sel[1][1] \in seen THEN GroupOrder(Tail(sel), seen)
    ELSE <<sel[1][1]>> \o GroupOrder(Tail(sel), seen \cup {sel[1][1]})

RECURSIVE FlattenGroups(_, _)
FlattenGroups(sel, order) ==
    IF order = <<>> THEN <<>>
    ELSE SortBySeqNo(OfDocument(sel, order[1])) \o FlattenGroups(sel, Tail(order))

Flattened(sel) == FlattenGroups(sel, GroupOrder(sel, {}))

\* ---- _build_prompt ----
\* The prompt as the list `lines` that is joined with newlines. A line is
\* the preamble, a "### Book: {title}" header, a "--- chunk N ---" or
\* "--- end chunk N ---" delimiter, a chunk's text, or the closing paragraph.
\* document_title is unique per document and chunk_text per chunk here.
PromptLine(kind, counter, c) ==
    [kind |-> kind, counter |-> counter, document_id |-> c[1], chunk_sequence |-> c[2]]
NoCurrentDoc == "None"
NoChunk == <<NoCurrentDoc, 0>>
Preamble == PromptLine("preamble", 0, NoChunk)
Closing == PromptLine("closing", 0, NoChunk)
BookHeader(doc_id) == PromptLine("book", 0, <<doc_id, 0>>)
ChunkStart(counter) == PromptLine("chunk", counter, NoChunk)
ChunkBody(c) == PromptLine("text", 0, c)
ChunkEnd(counter) == PromptLine("end chunk", counter, NoChunk)

\* `if doc_id != current_doc`
NewBook_always(doc_id, current_doc) == TRUE
NewBook(doc_id, current_doc) == doc_id # current_doc

RECURSIVE ChunkLines(_, _, _)
ChunkLines(cs, current_doc, counter) ==
    IF cs = <<>> THEN <<>>
    ELSE LET c == Head(cs)
             doc_id == c[1]
         IN (IF NewBook(doc_id, current_doc) THEN <<BookHeader(doc_id)>> ELSE <<>>)
            \o <<ChunkStart(counter), ChunkBody(c), ChunkEnd(counter)>>
            \o ChunkLines(Tail(cs), doc_id, counter + 1)

build_prompt(cs) == <<Preamble>> \o ChunkLines(cs, NoCurrentDoc, 1) \o <<Closing>>

\* ---- run ----
\* Steps 1-2: the latest user query and the _needs_rag test.
RunStart ==
    /\ cpc = "start"
    /\ IF needs_rag(query)
       THEN cpc' = "docs" /\ UNCHANGED response
       ELSE cpc' = "returned" /\ response' = ""
    /\ UNCHANGED <<tokens, agent_docs, query, search_text, translate_outcome, hits, hit_i, selected, lookups,
                   expanded, lines, chunkerVars, embedVars, ingestVars>>

\* Step 3: _fetch_agent_documents, which raises when the database does, and
\* the no-documents branch.
FetchAgentDocuments ==
    /\ cpc = "docs"
    /\ \/ cpc' = ExceptHandler
       \/ cpc' = IF agent_docs = {} THEN NoDocsBranch ELSE "translate"
    /\ response' = IF cpc' = "returned" THEN "" ELSE response
    /\ UNCHANGED <<tokens, agent_docs, query, search_text, translate_outcome, hits, hit_i, selected, lookups,
                   expanded, lines, chunkerVars, embedVars, ingestVars>>

\* Step 4: _maybe_translate(query_text, dom_lang). dom_lang is the most
\* frequent main_language of the agent's documents. A detection that raises
\* counts as "en"; a query detected in the target language is kept; any other
\* query goes to Translate.get_translated_string, whose exception is not
\* caught here and reaches the except clause of run.
MaybeTranslate ==
    /\ cpc = "translate"
    /\ \E target_lang \in Languages, d \in Languages \cup {"failed"}, translated \in BOOLEAN :
         IF Detected(d) = target_lang
         THEN /\ cpc' = "search"
              /\ search_text' = query
              /\ translate_outcome' = [detection |-> d, translation |-> "not called"]
         ELSE IF translated
         THEN /\ cpc' = "search"
              /\ search_text' = <<"translated">> \o query
              /\ translate_outcome' = [detection |-> d, translation |-> "done"]
         ELSE /\ cpc' = ExceptHandler
              /\ UNCHANGED search_text
              /\ translate_outcome' = [detection |-> d, translation |-> "failed"]
    /\ response' = IF cpc' = "returned" THEN "" ELSE response
    /\ UNCHANGED <<tokens, agent_docs, query, hits, hit_i, selected, lookups, expanded,
                   lines, chunkerVars, embedVars, ingestVars>>

\* Step 5: _es_search. search_and_filter returns up to top_k records that
\* pass its filter clauses, in rank order (any order: the scores depend on the
\* embeddings), or [] after an internal failure.
EsSearch ==
    /\ cpc = "search"
    /\ \E hs \in SeqsUpTo(IndexedChunks(es_docs), IF MaxHits < TOP_K THEN MaxHits ELSE TOP_K) :
         /\ \A i, j \in 1..Len(hs) : i # j => hs[i] # hs[j]
         /\ \A i \in 1..Len(hs) : Matches(hs[i], FilterClauses(MetadataFilters))
         /\ hits' = hs
         /\ cpc' = IF hs = <<>> THEN NoHitsBranch ELSE "expand"
    /\ response' = IF cpc' = "returned" THEN "" ELSE response
    /\ hit_i' = 1
    /\ selected' = <<>>
    /\ translate_outcome' = NotTranslated
    /\ es_docs' = EsRead(es_docs)
    /\ UNCHANGED <<tokens, agent_docs, query, search_text, lookups, expanded,
                   lines, chunkerVars, embedVars, document_status, ipc, runs, pending, cur_doc,
                   docs_to_index>>

\* Step 6, first loop: the primaries go into `selected`.
ExpandStart ==
    /\ cpc = "expand"
    /\ cpc' = "neighbours"
    /\ selected' = AddPrimaries(<<>>, hits)
    /\ UNCHANGED <<tokens, agent_docs, query, search_text, translate_outcome, hits, hit_i, lookups, expanded,
                   response, lines, chunkerVars, embedVars, ingestVars>>

\* Step 6, one pass of the second loop: the budget test, then the prev and
\* the next neighbour of the hit.
ExpandHit ==
    /\ cpc = "neighbours"
    /\ hit_i <= Len(hits)
    /\ total_tokens(selected) < MAX_TOKENS
    /\ \E found1, found2 \in BOOLEAN :
         LET src == EsSource(hits[hit_i])
             sel1 == AfterNeighbour(selected, src.prev_chunk_hash, found1)
             log1 == LoggedLookup(lookups, selected, src.prev_chunk_hash, found1)
             sel2 == AfterNeighbour(sel1, src.next_chunk_hash, found2)
             log2 == LoggedLookup(log1, sel1, src.next_chunk_hash, found2)
             failed == \E k \in (Len(lookups) + 1)..Len(log2) : ~log2[k].found
         IN /\ lookups' = log2
            /\ Cardinality({k \in 1..Len(lookups') : ~lookups'[k].found}) <= MaxLookupFaults
            /\ IF failed /\ OnLookupFailure = "raise"
               THEN cpc' = ExceptHandler /\ UNCHANGED <<selected, hit_i>>
               ELSE cpc' = cpc /\ selected' = sel2 /\ hit_i' = hit_i + 1
    /\ es_docs' = EsRead(es_docs)
    /\ UNCHANGED <<tokens, agent_docs, query, search_text, translate_outcome, hits,
                   expanded, response, lines, chunkerVars, embedVars, document_status, ipc, runs,
                   pending, cur_doc, docs_to_index>>

\* Step 6, the loop ends (break or exhausted): group, sort, flatten, return.
ExpandReturn ==
    /\ cpc = "neighbours"
    /\ hit_i > Len(hits) \/ total_tokens(selected) >= MAX_TOKENS
    /\ expanded' = Flattened(selected)
    /\ cpc' = "build"
    /\ UNCHANGED <<tokens, agent_docs, query, search_text, translate_outcome, hits, hit_i, selected, lookups,
                   response, lines, chunkerVars, embedVars, ingestVars>>

\* Step 7: _build_prompt reads the title of each chunk's document from the
\* agent's documents; a chunk of another document is an AttributeError.
BuildPrompt ==
    /\ cpc = "build"
    /\ IF \A i \in 1..Len(expanded) : expanded[i][1] \in agent_docs
       THEN cpc' = "returned" /\ response' = "prompt" /\ lines' = build_prompt(expanded)
       ELSE /\ cpc' = ExceptHandler
            /\ response' = IF ExceptHandler = "returned" THEN "" ELSE response
            /\ UNCHANGED lines
    /\ UNCHANGED <<tokens, agent_docs, query, search_text, translate_outcome, hits, hit_i, selected, lookups,
                   expanded, chunkerVars, embedVars, ingestVars>>

(***************************************************************************)
(* The ingestion script: process_document, agent_loop, main                *)
(***************************************************************************)
\* The members of AgentDocumentProcessingStatus that process_document assigns.
EXTRACTING_TEXT == "EXTRACTING_TEXT"
EXTRACTING_TEXT_FAILED == "EXTRACTING_TEXT_FAILED"
CHUNKING_TEXT_SEMANTICALLY == "CHUNKING_TEXT_SEMANTICALLY"
CHUNKING_TEXT_SEMANTICALLY_FAILED == "CHUNKING_TEXT_SEMANTICALLY_FAILED"
EMBEDDING_AND_STORING_IN_ES == "EMBEDDING_AND_STORING_IN_ES"
COMPLETED == "COMPLETED"

\* The documents attached to the agents, in the order the loops visit them.
DocumentsOfAgents == <<"doc1", "doc2">>
NoDoc == "none"

\* An f-string "{a}:{b}" or "{a}:{b}:{c}", as the list of its fields: two
\* such strings are equal exactly when they have the same fields.
FString(fields) == fields
\* sha256_hex(data), injective on the strings of the model.
sha256_hex(data) == <<"sha256", data>>
\* The empty string where a hash is expected.
NoHash == <<"", <<>>>>

\* The meta object of chunk idx (0-based) of the list cs of document doc.
Meta(doc, agent_id, cs, idx) ==
    [chunk_text |-> cs[idx + 1],
     chunk_hash |-> sha256_hex(FString(<<doc, idx, cs[idx + 1]>>)),
     prev_chunk_hash |-> IF idx > 0 THEN sha256_hex(FString(<<doc, idx - 1>>)) ELSE NoHash,
     next_chunk_hash |-> IF idx < Len(cs) - 1 THEN sha256_hex(FString(<<doc, idx + 1>>))
                         ELSE NoHash,
     chunk_sequence |-> idx,
     document_id |-> doc,
     agent_ids |-> <<agent_id>>]

\* The status process_document gives a document none of whose chunks passes
\* is_meaningful_chunk.
OnNoChunks_extraction == EXTRACTING_TEXT_FAILED
OnNoChunks == CHUNKING_TEXT_SEMANTICALLY_FAILED

DocsToIndex(doc, agent_id, cs) == [i \in 1..Len(cs) |-> Meta(doc, agent_id, cs, i - 1)]

\* agent_loop / main start: the documents of every agent are listed.
StartRun ==
    /\ ipc = "idle"
    /\ runs < MaxRuns
    /\ runs' = runs + 1
    /\ pending' = DocumentsOfAgents
    /\ ipc' = "loop"
    /\ UNCHANGED <<document_status, es_docs, cur_doc, docs_to_index,
                   chunkerVars, embedVars, ragVars>>

\* One pass of the loop over the documents: a COMPLETED document is skipped
\* (and, in main, a document whose file is missing when only found files are
\* processed); any other document goes to process_document, which first sets
\* EXTRACTING_TEXT and commits.
VisitDocument ==
    /\ ipc = "loop"
    /\ pending # <<>>
    /\ pending' = Tail(pending)
    /\ \/ /\ document_status[Head(pending)] # COMPLETED
          /\ document_status' = [document_status EXCEPT ![Head(pending)] = EXTRACTING_TEXT]
          /\ cur_doc' = Head(pending)
          /\ ipc' = "extract"
       \/ /\ document_status[Head(pending)] = COMPLETED
          /\ UNCHANGED <<document_status, cur_doc, ipc>>
       \/ UNCHANGED <<document_status, cur_doc, ipc>>
    /\ UNCHANGED <<es_docs, runs, docs_to_index, chunkerVars, embedVars, ragVars>>

\* extract_text, the OCR fallback and the length test: a text that is too
\* short ends the call with EXTRACTING_TEXT_FAILED, any other text moves the
\* document to CHUNKING_TEXT_SEMANTICALLY.
ExtractText ==
    /\ ipc = "extract"
    /\ \E usable \in BOOLEAN :
         IF usable
         THEN /\ document_status' =
                    [document_status EXCEPT ![cur_doc] = CHUNKING_TEXT_SEMANTICALLY]
              /\ ipc' = "chunk"
              /\ UNCHANGED cur_doc
         ELSE /\ document_status' =
                    [document_status EXCEPT ![cur_doc] = EXTRACTING_TEXT_FAILED]
              /\ ipc' = "loop"
              /\ cur_doc' = NoDoc
    /\ UNCHANGED <<es_docs, runs, pending, docs_to_index, chunkerVars, embedVars, ragVars>>

\* semantic_chunk and the is_meaningful_chunk filter: no chunk left ends the
\* call with CHUNKING_TEXT_SEMANTICALLY_FAILED; otherwise the meta objects are
\* built and the document moves to EMBEDDING_AND_STORING_IN_ES.
ChunkText ==
    /\ ipc = "chunk"
    /\ \E cs \in SeqsUpTo(Texts, MaxIngestChunks) :
         IF cs = <<>>
         THEN /\ document_status' = [document_status EXCEPT ![cur_doc] = OnNoChunks]
              /\ ipc' = "loop"
              /\ cur_doc' = NoDoc
              /\ UNCHANGED docs_to_index
         ELSE /\ docs_to_index' = DocsToIndex(cur_doc, AgentId, cs)
              /\ document_status' =
                    [document_status EXCEPT ![cur_doc] = EMBEDDING_AND_STORING_IN_ES]
              /\ ipc' = "embed"
              /\ UNCHANGED cur_doc
    /\ UNCHANGED <<es_docs, runs, pending, chunkerVars, embedVars, ragVars>>

\* batch_embed and bulk_index succeed: the records are written and the
\* document is COMPLETED.
EmbedAndIndex ==
    /\ ipc = "embed"
    /\ es_docs' = [es_docs EXCEPT ![cur_doc] = docs_to_index]
    /\ document_status' = [document_status EXCEPT ![cur_doc] = COMPLETED]
    /\ ipc' = "loop"
    /\ cur_doc' = NoDoc
    /\ docs_to_index' = <<>>
    /\ UNCHANGED <<runs, pending, chunkerVars, embedVars, ragVars>>

\* es_client.embed or es_client.bulk_index raises: nothing in process_document
\* or in the loops catches it, so the run ends there and the status stays
\* what the last commit made it.
EmbedOrIndexRaises ==
    /\ ipc = "embed"
    /\ ipc' = "idle"
    /\ pending' = <<>>
    /\ cur_doc' = NoDoc
    /\ docs_to_index' = <<>>
    /\ UNCHANGED <<document_status, es_docs, runs, chunkerVars, embedVars, ragVars>>

\* The loop has visited every document: the run ends.
EndRun ==
    /\ ipc = "loop"
    /\ pending = <<>>
    /\ ipc' = "idle"
    /\ UNCHANGED <<document_status, es_docs, runs, pending, cur_doc, docs_to_index,
                   chunkerVars, embedVars, ragVars>>

\* No ingestion run; the documents are as the upload left them.
InitIngestIdle ==
    /\ document_status = [d \in DocumentIds |-> "UPLOADED"]
    /\ es_docs = [d \in DocumentIds |-> <<>>]
    /\ ipc = "idle"
    /\ runs = 0
    /\ pending = <<>>
    /\ cur_doc = NoDoc
    /\ docs_to_index = <<>>

InitRagIdle ==
    /\ tokens = [c \in Corpus |-> 120]
    /\ agent_docs = {}
    /\ query = <<>>
    /\ cpc = "idle"
    /\ search_text = <<>>
    /\ translate_outcome = NotTranslated
    /\ hits = <<>>
    /\ hit_i = 1
    /\ selected = <<>>
    /\ lookups = <<>>
    /\ expanded = <<>>
    /\ response = "none"
    /\ lines = <<>>

Hashes == {generate_chunk_hash(t) : t \in Texts}

InitEmbedCommon ==
    /\ document_chunks = <<>>
    /\ chunked = FALSE
    /\ index = [h \in Hashes |-> NoRec]
    /\ epc = [e \in Embedders |-> "idle"]
    /\ chunks = [e \in Embedders |-> <<>>]
    /\ tasks = [e \in Embedders |-> <<>>]
    /\ failed_chunks = [e \in Embedders |-> <<>>]
    /\ retry_attempt = [e \in Embedders |-> 0]
    /\ calls = [e \in Embedders |-> 0]
    /\ attempts = [e \in Embedders |-> <<>>]
    /\ index_at_call = [e \in Embedders |-> [h \in Hashes |-> NoRec]]
    /\ last_write = "none"

\* ---- SpecChunk: the chunker over every splitter output ----
InitChunk ==
    /\ InitIngestIdle
    /\ raw_chunks \in SeqsUpTo(Texts, MaxChunks)
    /\ fault_budget = Unbounded
    /\ InitEmbedCommon
    /\ InitRagIdle

NextChunk == GetDocumentChunks

SpecChunk == InitChunk /\ [][NextChunk]_vars

\* ---- SpecEmbed: one instance, called up to MaxCalls times ----
InitEmbed ==
    /\ InitIngestIdle
    /\ raw_chunks \in SeqsUpTo(Texts, MaxEmbedChunks) \ {<<>>}
    /\ fault_budget = Unbounded
    /\ InitEmbedCommon
    /\ InitRagIdle

NextEmbed ==
    \/ EmbedAndStoreChunks(1)
    \/ \E i \in DOMAIN tasks[1] : IndexChunk(1, i)
    \/ InitialGatherDone(1)
    \/ RetryRound(1)
    \/ RetryGatherDone(1)
    \/ RetryExit(1)

SpecEmbed == InitEmbed /\ [][NextEmbed]_vars

\* The event loop runs every ready task and every backend call returns or raises.
SpecEmbedFair == SpecEmbed /\ WF_vars(NextEmbed)

\* ---- SpecConc: two instances ingest the same document at the same time ----
InitConc ==
    /\ InitIngestIdle
    /\ raw_chunks \in SeqsUpTo(Texts, MaxEmbedChunks) \ {<<>>}
    /\ fault_budget = MaxFaults
    /\ InitEmbedCommon
    /\ InitRagIdle

NextConc ==
    \E e \in Embedders :
        \/ calls[e] = 0 /\ EmbedAndStoreChunks(e)
        \/ \E i \in DOMAIN tasks[e] : IndexChunk(e, i)
        \/ InitialGatherDone(e)
        \/ RetryRound(e)
        \/ RetryGatherDone(e)
        \/ RetryExit(e)

SpecConc == InitConc /\ [][NextConc]_vars

\* ---- SpecRag: one run call over an index holding the corpus ----
\* The index holds the records of the corpus and every document is COMPLETED.
CorpusRecords == [d \in IndexedDocs |-> [i \in 1..DocLen(d) |-> EsSource(<<d, i - 1>>)]]

InitRag ==
    /\ document_status = [d \in DocumentIds |-> COMPLETED]
    /\ es_docs = CorpusRecords
    /\ ipc = "idle"
    /\ runs = 0
    /\ pending = <<>>
    /\ cur_doc = NoDoc
    /\ docs_to_index = <<>>
    /\ raw_chunks = <<>>
    /\ fault_budget = Unbounded
    /\ InitEmbedCommon
    /\ tokens \in [Corpus -> TokenChoices]
    /\ agent_docs \in SUBSET IndexedDocs
    /\ query \in Queries
    /\ cpc = "start"
    /\ search_text = <<>>
    /\ translate_outcome = NotTranslated
    /\ hits = <<>>
    /\ hit_i = 1
    /\ selected = <<>>
    /\ lookups = <<>>
    /\ expanded = <<>>
    /\ response = "none"
    /\ lines = <<>>

NextRag ==
    \/ RunStart
    \/ FetchAgentDocuments
    \/ MaybeTranslate
    \/ EsSearch
    \/ ExpandStart
    \/ ExpandHit
    \/ ExpandReturn
    \/ BuildPrompt

SpecRag == InitRag /\ [][NextRag]_vars

\* ---- SpecNeedsRag: steps 1-2 of run over every query of QueryInputs ----
InitNeedsRag ==
    /\ InitIngestIdle
    /\ raw_chunks = <<>>
    /\ fault_budget = Unbounded
    /\ InitEmbedCommon
    /\ tokens = [c \in Corpus |-> 120]
    /\ agent_docs = IndexedDocs
    /\ query \in QueryInputs
    /\ cpc = "start"
    /\ search_text = <<>>
    /\ translate_outcome = NotTranslated
    /\ hits = <<>>
    /\ hit_i = 1
    /\ selected = <<>>
    /\ lookups = <<>>
    /\ expanded = <<>>
    /\ response = "none"
    /\ lines = <<>>

NextNeedsRag == RunStart

SpecNeedsRag == InitNeedsRag /\ [][NextNeedsRag]_vars

\* ---- SpecIngest: up to MaxRuns ingestion runs over the documents ----
InitIngest ==
    /\ document_status \in [DocumentIds -> {"NEW", "UPLOADED"}]
    /\ es_docs = [d \in DocumentIds |-> <<>>]
    /\ ipc = "idle"
    /\ runs = 0
    /\ pending = <<>>
    /\ cur_doc = NoDoc
    /\ docs_to_index = <<>>
    /\ raw_chunks = <<>>
    /\ fault_budget = Unbounded
    /\ InitEmbedCommon
    /\ InitRagIdle

NextIngest ==
    \/ StartRun
    \/ VisitDocument
    \/ ExtractText
    \/ ChunkText
    \/ EmbedAndIndex
    \/ EmbedOrIndexRaises
    \/ EndRun

SpecIngest == InitIngest /\ [][NextIngest]_vars

(***************************************************************************)
(* Properties                                                              *)
(***************************************************************************)
Range(f) == {f[i] : i \in DOMAIN f}
Returned(e) == epc[e] = "idle" /\ calls[e] > 0
AllIndexed(idx, cs) == \A i \in 1..Len(cs) : idx[cs[i].hash] # NoRec
RecordCount(idx) == Cardinality({h \in DOMAIN idx : idx[h] # NoRec})

\* C1: in a list of n >= 1 chunks returned by get_document_chunks, each
\* chunk's next_chunk_hash is the hash of the chunk after it and each chunk's
\* prev_chunk_hash is the hash of the chunk before it; the first chunk has no
\* prev_chunk_hash and the last no next_chunk_hash.
C1_ChainInvariant ==
    chunked =>
        LET n == Len(document_chunks) IN
        n >= 1 =>
            /\ \A i \in 1..(n - 1) :
                 /\ document_chunks[i].next_chunk_hash = document_chunks[i + 1].hash
                 /\ document_chunks[i + 1].prev_chunk_hash = document_chunks[i].hash
            /\ document_chunks[1].prev_chunk_hash = None
            /\ document_chunks[n].next_chunk_hash = None

C1_Witness ==
    /\ chunked
    /\ Len(document_chunks) >= 3
    /\ document_chunks[1].hash # document_chunks[2].hash
    /\ document_chunks[2].hash # document_chunks[3].hash
    /\ document_chunks[2].next_chunk_hash = document_chunks[3].hash

\* C2: a second embed_and_store_chunks call over the same chunk set, begun
\* when every chunk of the set is in the index, creates no record and changes
\* none: the index, and so its record count, stays what it was when the call
\* began.
C2_IdempotentRerun ==
    \A e \in Embedders :
        (calls[e] >= 2 /\ AllIndexed(index_at_call[e], chunks[e])) =>
            /\ index = index_at_call[e]
            /\ RecordCount(index) = RecordCount(index_at_call[e])

C2_Witness ==
    /\ calls[1] = 2
    /\ epc[1] = "idle"
    /\ AllIndexed(index_at_call[1], chunks[1])
    /\ Len(chunks[1]) = 2
    /\ chunks[1][1].hash # chunks[1][2].hash
    /\ failed_chunks[1] = <<>>
    /\ \A i \in 1..Len(chunks[1]) : index[chunks[1][i].hash].processed_at = Now(1, 1)

\* C3: when embed_and_store_chunks has returned, every chunk of its input is
\* in the index under its hash or is in failed_chunks.
C3_NoChunkLost ==
    \A e \in Embedders :
        Returned(e) =>
            \A i \in 1..Len(chunks[e]) :
                \/ index[chunks[e][i].hash] # NoRec
                \/ chunks[e][i] \in Range(failed_chunks[e])

C3_Witness ==
    /\ Returned(1)
    /\ Len(chunks[1]) = 2
    /\ index[chunks[1][1].hash] # NoRec
    /\ index[chunks[1][2].hash] = NoRec
    /\ chunks[1][2] \in Range(failed_chunks[1])

\* C4: embed_and_store_chunks terminates; it runs at most max_retries (10)
\* retry rounds after the first pass, so no chunk is attempted more than 11
\* times in a call; a retry round only starts while failed_chunks is not
\* empty, and the call ends with failed_chunks empty unless all 10 rounds ran.
C4_RetryBounded ==
    \A e \in Embedders :
        /\ retry_attempt[e] <= max_retries
        /\ \A c \in DOMAIN attempts[e] : attempts[e][c] <= max_retries + 1
        /\ epc[e] = "retry" => Len(tasks[e]) >= 1
        /\ Returned(e) => (failed_chunks[e] = <<>> \/ retry_attempt[e] = max_retries)

IndexChunkRan(e, i) ==
    /\ i \in DOMAIN tasks[e]
    /\ ~tasks[e][i].done
    /\ i \in DOMAIN tasks'[e]
    /\ tasks'[e][i].done

\* C5: index_chunk appends its chunk to failed_chunks exactly when the
\* embedding call fails or the write fails with a non-conflict error; a write
\* that conflicts with an existing id appends nothing and leaves the index,
\* and so the existing record, unchanged.
C5_FailedExactlyOnError ==
    [][\A e \in Embedders : \A i \in DOMAIN tasks[e] :
         IndexChunkRan(e, i) =>
            /\ failed_chunks'[e] =
                  IF last_write' \in {"embed_failed", "write_failed"}
                  THEN ListAppend(failed_chunks[e], tasks[e][i].chunk)
                  ELSE failed_chunks[e]
            /\ last_write' = "conflict" =>
                  /\ index[tasks[e][i].chunk.hash] # NoRec
                  /\ index' = index
            /\ (index[tasks[e][i].chunk.hash] # NoRec) =>
                  index'[tasks[e][i].chunk.hash] = index[tasks[e][i].chunk.hash]]_vars

C5_Witness ==
    /\ last_write = "conflict"
    /\ calls[1] = 2
    /\ failed_chunks[1] = <<>>
    /\ \A i \in 1..Len(chunks[1]) : index[chunks[1][i].hash].processed_at = Now(1, 1)

\* C6: two instances ingest the same chunk set concurrently with no locking.
\* A record, once written, is never replaced (the first writer's stays), the
\* duplicate write of the other instance changes nothing and is not added to
\* failed_chunks, and when both calls have returned every chunk hash that
\* some instance does not report in failed_chunks has its record.
HashFailed(e, h) == \E i \in 1..Len(failed_chunks[e]) : failed_chunks[e][i].hash = h

C6_FirstWriterWins ==
    /\ [][/\ \A h \in Hashes : index[h] # NoRec => index'[h] = index[h]
          /\ \A e \in Embedders : \A i \in DOMAIN tasks[e] :
               (IndexChunkRan(e, i) /\ index[tasks[e][i].chunk.hash] # NoRec
                  /\ last_write' \notin {"embed_failed", "write_failed"}) =>
                    (index' = index /\ failed_chunks' = failed_chunks)]_vars
    /\ [](( \A e \in Embedders : Returned(e)) =>
            \A i \in 1..Len(raw_chunks) :
               LET h == generate_chunk_hash(raw_chunks[i]) IN
               (\E e \in Embedders : ~HashFailed(e, h)) => index[h] # NoRec)

C6_Witness ==
    /\ \A e \in Embedders : Returned(e) /\ failed_chunks[e] = <<>>
    /\ Len(raw_chunks) = 2
    /\ index[generate_chunk_hash(raw_chunks[1])].processed_at = Now(1, 1)
    /\ index[generate_chunk_hash(raw_chunks[2])].processed_at = Now(2, 1)

\* C7: run never raises into its caller; when a step raises, run returns
\* the empty response.
C7_RunNeverRaises == cpc # "raised"

\* C8 as stated: for every list of hits and every token assignment the total
\* of the selected chunks exceeds MAX_TOKENS by at most one chunk's tokens
\* (here: the largest chunk of the index).
LargestChunk == CHOOSE n \in {tokens[c] : c \in Corpus} : \A c \in Corpus : tokens[c] <= n

C8_BudgetAsStated ==
    cpc = "build" => total_tokens(selected) <= MAX_TOKENS + LargestChunk

\* C8 as amended: when the primary hits alone total MAX_TOKENS or more, no
\* neighbour is added and the selection is the primaries; otherwise the total
\* exceeds MAX_TOKENS by less than the tokens of the last neighbour added.
C8_BudgetAmended ==
    cpc = "build" =>
        IF total_tokens(AddPrimaries(<<>>, hits)) >= MAX_TOKENS
        THEN selected = AddPrimaries(<<>>, hits)
        ELSE Len(selected) > Len(hits) =>
                total_tokens(selected) < MAX_TOKENS + tokens[selected[Len(selected)]]

C8_Witness ==
    /\ cpc = "build"
    /\ total_tokens(AddPrimaries(<<>>, hits)) < MAX_TOKENS
    /\ Len(selected) > Len(hits)
    /\ total_tokens(selected) > MAX_TOKENS

\* C9: every primary hit is in the list _expand_chunks_to_token_budget
\* returns, whatever the token counts and the number of hits.
C9_PrimariesKept ==
    cpc = "build" => \A i \in 1..Len(hits) : hits[i] \in Range(expanded)

C9_Witness ==
    /\ cpc = "build"
    /\ Len(hits) = 3
    /\ total_tokens(<<hits[1], hits[2]>>) >= MAX_TOKENS
    /\ \A i \in 1..Len(hits) : hits[i] \in Range(expanded)

\* C10: one document of 5 chunks of 120 tokens, MAX_TOKENS = 1000, a single
\* hit at sequence 2 and every lookup answered: the result holds the 5 chunks
\* in order 0,1,2,3,4.
C10_OutwardExpansion ==
    ( /\ cpc = "build"
      /\ hits = << <<"doc1", 2>> >>
      /\ \A c \in Corpus : tokens[c] = 120
      /\ \A k \in 1..Len(lookups) : lookups[k].found ) =>
        expanded = [i \in 1..5 |-> <<"doc1", i - 1>>]

\* C11: in the list _expand_chunks_to_token_budget returns, any two chunks of
\* the same document appear in ascending chunk_sequence order, whatever the
\* primary hits and the fetched neighbours.
C11_AscendingWithinDocument ==
    cpc = "build" =>
        \A i, j \in 1..Len(expanded) :
            (i < j /\ expanded[i][1] = expanded[j][1]) => expanded[i][2] < expanded[j][2]

C11_Witness ==
    /\ cpc = "build"
    /\ Len(expanded) >= 4
    /\ \E i, j \in 1..Len(selected) :
         i < j /\ selected[i][1] = selected[j][1] /\ selected[i][2] > selected[j][2]
    /\ \E i \in 1..Len(expanded) : expanded[i][1] = "doc2"

\* C12 as stated: _needs_rag is false exactly when the query has fewer than 4
\* words or its stripped lowercase form is one of the trivial acknowledgments,
\* "ok" among them.
StatedAcknowledgments == simple_phrases \cup {<<"ok">>}

C12_NeedsRagAsStated ==
    cpc # "start" =>
        ((cpc = "returned") <=>
            (Len(query) < 4 \/ LowerStrip(query) \in StatedAcknowledgments))

\* C12 as amended: _needs_rag is false exactly when the query has fewer than 4
\* words or its stripped lowercase form is one of "thanks", "thank you",
\* "okay", "hi", "hello"; "hi", "thanks!" and "ok" give false (each has fewer
\* than 4 words) and run then returns the empty response.
C12_NeedsRagAmended ==
    cpc # "start" =>
        /\ (cpc = "returned") <=>
              (Len(query) < 4 \/ LowerStrip(query) \in simple_phrases)
        /\ cpc \in {"returned", "docs"}
        /\ cpc = "returned" => response = ""
        /\ query \in {<<"Hi">>, <<"thanks!">>, <<"ok">>} => cpc = "returned"

C12_Witness ==
    /\ cpc = "returned"
    /\ query = <<"!", "thank", "you", "!">>

\* C13: search_and_filter applies the agent_id filter of the collector: every
\* hit it returns is a record of the collector's agent, so no chunk of a
\* document that is not attached to the agent is returned.
C13_HitsOfAgentOnly ==
    cpc \in {"expand", "neighbours", "build"} =>
        \A i \in 1..Len(hits) :
            /\ AgentId \in AgentIds(hits[i], agent_docs)
            /\ hits[i][1] \in agent_docs

\* C14: the hash of a chunk depends on its document, its position and its
\* text, so two chunks of a chunker run that differ in chunk_sequence never
\* have the same hash, even when their texts are identical.
C14_HashUniquePerPosition ==
    chunked =>
        \A i, j \in 1..Len(document_chunks) :
            document_chunks[i].chunk_sequence # document_chunks[j].chunk_sequence =>
                document_chunks[i].hash # document_chunks[j].hash

\* C15: when the language detection or the translation of the query fails,
\* the collector keeps the original query text unmodified and goes on to the
\* vector search with it.
C15_FallbackToOriginal ==
    [][(cpc = "translate" /\ (translate_outcome'.detection = "failed"
                                \/ translate_outcome'.translation = "failed")) =>
          (cpc' = "search" /\ search_text' = query)]_vars

\* C16: every change of a document's status follows an edge of
\* NEW -> UPLOADED -> EXTRACTING_TEXT -> {EXTRACTING_TEXT_FAILED |
\* CHUNKING_TEXT_SEMANTICALLY} -> {CHUNKING_TEXT_SEMANTICALLY_FAILED |
\* EMBEDDING_AND_STORING_IN_ES} -> {EMBEDDING_AND_STORING_IN_ES_FAILED |
\* COMPLETED}: over any sequence of ingestion runs the status never moves
\* backward and never skips a state.
LifecycleEdges ==
    {<<"NEW", "UPLOADED">>, <<"UPLOADED", EXTRACTING_TEXT>>,
     <<EXTRACTING_TEXT, EXTRACTING_TEXT_FAILED>>,
     <<EXTRACTING_TEXT, CHUNKING_TEXT_SEMANTICALLY>>,
     <<CHUNKING_TEXT_SEMANTICALLY, CHUNKING_TEXT_SEMANTICALLY_FAILED>>,
     <<CHUNKING_TEXT_SEMANTICALLY, EMBEDDING_AND_STORING_IN_ES>>,
     <<EMBEDDING_AND_STORING_IN_ES, "EMBEDDING_AND_STORING_IN_ES_FAILED">>,
     <<EMBEDDING_AND_STORING_IN_ES, COMPLETED>>}

C16_StatusFollowsLifecycle ==
    [][\A d \in DocumentIds :
          document_status'[d] # document_status[d] =>
              <<document_status[d], document_status'[d]>> \in LifecycleEdges]_vars

\* C17: terminal statuses are absorbing: a document that is COMPLETED or in a
\* *_FAILED status is not passed to process_document by a later run and its
\* status does not change again.
TerminalStatuses ==
    {COMPLETED, EXTRACTING_TEXT_FAILED, CHUNKING_TEXT_SEMANTICALLY_FAILED,
     "EMBEDDING_AND_STORING_IN_ES_FAILED"}

C17_TerminalAbsorbing ==
    [][\A d \in DocumentIds :
          document_status[d] \in TerminalStatuses =>
              /\ document_status'[d] = document_status[d]
              /\ cur_doc' = d => cur_doc = d]_vars

\* C18: for an agent with no attached documents run returns the empty
\* response whatever the conversation, and search_and_filter is not called.
C18_NoDocumentsEmptyResponse ==
    (agent_docs = {} /\ cpc \notin {"start", "docs"}) =>
        (cpc = "returned" /\ response = "" /\ hits = <<>>)

\* C19: a run call, with its search_and_filter call and its get_by_id
\* lookups, leaves the records of the index and the status of every document
\* as they were, whether it ends with a prompt or after a failure.
C19_RunReadOnly ==
    /\ es_docs = CorpusRecords
    /\ document_status = [d \in DocumentIds |-> COMPLETED]
    /\ \A h \in Hashes : index[h] = NoRec

C19_Witness ==
    /\ cpc = "returned"
    /\ response = "prompt"
    /\ Len(hits) >= 2
    /\ \E k \in 1..Len(lookups) : lookups[k].found
    /\ \E k \in 1..Len(lookups) : ~lookups[k].found

\* C20: in the records process_document writes for a document, the
\* next_chunk_hash of record i is the chunk_hash of record i+1 and the
\* prev_chunk_hash of record i+1 is the chunk_hash of record i, so a lookup of
\* a link by id finds the neighbouring record.
C20_RecordLinksResolve ==
    \A d \in DocumentIds :
        \A i \in 1..(Len(es_docs[d]) - 1) :
            /\ es_docs[d][i].next_chunk_hash = es_docs[d][i + 1].chunk_hash
            /\ es_docs[d][i + 1].prev_chunk_hash = es_docs[d][i].chunk_hash

\* C21: every process_document run leaves its document in a terminal status;
\* when the embedding or the index write fails the status becomes
\* EMBEDDING_AND_STORING_IN_ES_FAILED and does not stay
\* EMBEDDING_AND_STORING_IN_ES.
C21_EndsInTerminalStatus ==
    \A d \in DocumentIds :
        (cur_doc # d /\ document_status[d] \notin {"NEW", "UPLOADED"}) =>
            document_status[d] \in TerminalStatuses

\* C22 as stated: when chunking leaves no viable chunk the document becomes
\* EXTRACTING_TEXT_FAILED and nothing is written to the index.
C22_NoChunksAsStated ==
    [][(ipc = "chunk" /\ ipc' = "loop") =>
          /\ document_status'[cur_doc] = EXTRACTING_TEXT_FAILED
          /\ es_docs' = es_docs]_vars

\* C22 as amended: when chunking leaves no viable chunk the document becomes
\* CHUNKING_TEXT_SEMANTICALLY_FAILED, the call ends and nothing is written to
\* the index; EXTRACTING_TEXT_FAILED is the status of a text that is too short.
C22_NoChunksAmended ==
    [][/\ (ipc = "chunk" /\ ipc' = "loop") =>
             /\ document_status'[cur_doc] = CHUNKING_TEXT_SEMANTICALLY_FAILED
             /\ es_docs' = es_docs
             /\ docs_to_index' = <<>>
       /\ (ipc = "extract" /\ ipc' = "loop") =>
             /\ document_status'[cur_doc] = EXTRACTING_TEXT_FAILED
             /\ es_docs' = es_docs]_vars

C22_Witness ==
    /\ document_status["doc1"] = CHUNKING_TEXT_SEMANTICALLY_FAILED
    /\ es_docs["doc1"] = <<>>
    /\ document_status["doc2"] = COMPLETED
    /\ Len(es_docs["doc2"]) = 2
    /\ ipc = "idle"

\* A step that is one pass of the second loop of the expansion, and the
\* get_by_id calls made in it.
ExpandHitStep == cpc = "neighbours" /\ hit_i' = hit_i + 1
NewLookups == SubSeq(lookups', Len(lookups) + 1, Len(lookups'))
NeighbourCount(src) ==
    (IF src.prev_chunk_hash # Empty THEN 1 ELSE 0) + (IF src.next_chunk_hash # Empty THEN 1 ELSE 0)

\* C23 as stated: the budget is tested once per primary hit and not per
\* neighbour: for a hit that passes the test both neighbours are fetched,
\* even if the first brings the total to MAX_TOKENS or above.
C23_BudgetOncePerHit ==
    [][ExpandHitStep => Len(NewLookups) = NeighbourCount(EsSource(hits[hit_i]))]_vars

\* C23 as amended: the budget is tested before each primary hit and again
\* before each neighbour fetch: the prev neighbour of a hit that passes the
\* test is fetched, and the next neighbour is fetched only if the total,
\* counting the prev neighbour when it was added, is still below MAX_TOKENS.
C23_BudgetPerNeighbour ==
    [][ExpandHitStep =>
          LET src == EsSource(hits[hit_i])
              prevFetched == src.prev_chunk_hash # Empty
              sel1 == IF prevFetched /\ NewLookups[1].found
                      THEN add_chunk(selected, CHOOSE c \in get_by_id(src.prev_chunk_hash) : TRUE)
                      ELSE selected
              nextFetched == src.next_chunk_hash # Empty /\ total_tokens(sel1) < MAX_TOKENS
          IN /\ total_tokens(selected) < MAX_TOKENS
             /\ Len(NewLookups) = (IF prevFetched THEN 1 ELSE 0) + (IF nextFetched THEN 1 ELSE 0)
             /\ prevFetched => NewLookups[1].hash = src.prev_chunk_hash
             /\ nextFetched => NewLookups[Len(NewLookups)].hash = src.next_chunk_hash]_vars

C23_Witness ==
    /\ cpc = "build"
    /\ hits = << <<"doc1", 2>> >>
    /\ lookups = <<[hash |-> ChunkHash(<<"doc1", 1>>), found |-> TRUE]>>
    /\ total_tokens(selected) >= MAX_TOKENS
    /\ Len(selected) = 2

\* C24 as stated: get_by_id is called for a neighbour hash only if the hash
\* is not empty and not yet a key of `selected`: a chunk that is already
\* selected is never fetched.
C24_NoFetchOfSelected ==
    [][ExpandHitStep =>
          \A k \in 1..Len(NewLookups) :
              /\ NewLookups[k].hash # Empty
              /\ NewLookups[k].hash \notin SelectedHashes(selected)]_vars

\* C24 as amended: get_by_id is called for every non-empty neighbour hash
\* while the budget allows, also when that chunk is already selected; the
\* fetched copy of a selected chunk is dropped by add_chunk, so `selected`
\* never holds a chunk twice and such a fetch leaves it unchanged.
C24_FetchEvenIfSelected ==
    [][ExpandHitStep =>
          LET src == EsSource(hits[hit_i]) IN
          /\ \A k \in 1..Len(NewLookups) : NewLookups[k].hash # Empty
          /\ (src.prev_chunk_hash # Empty /\ src.prev_chunk_hash \in SelectedHashes(selected)) =>
                (Len(NewLookups) >= 1 /\ NewLookups[1].hash = src.prev_chunk_hash)
          /\ Cardinality(SelectedHashes(selected')) = Len(selected')
          /\ (\A k \in 1..Len(NewLookups) : NewLookups[k].hash \in SelectedHashes(selected)) =>
                selected' = selected]_vars

C24_Witness ==
    /\ cpc = "build"
    /\ hits = << <<"doc1", 1>>, <<"doc1", 2>> >>
    /\ \E k \in 1..Len(lookups) :
         lookups[k].hash = ChunkHash(<<"doc1", 2>>) /\ lookups[k].found
    /\ Len(expanded) = 4

\* The chunks handed to the index_chunk tasks of the current pass.
TaskChunks(e) == {tasks[e][i].chunk : i \in 1..Len(tasks[e])}

\* C25: each retry round re-attempts exactly the chunks that failed in the
\* previous pass of the call (those whose last index_chunk run in this call
\* ended in a failure), so a chunk that was indexed or hit a conflict is not
\* attempted again, and the failed set after a round is a subset of the
\* chunks of that round.
C25_RetryExactlyPreviousFailures ==
    [][/\ (epc[1] = "retry_loop" /\ epc'[1] = "retry") =>
             TaskChunks(1)' = DOMAIN attempts[1]
       /\ (epc[1] = "retry" /\ epc'[1] = "retry_loop") =>
             Range(failed_chunks'[1]) \subseteq TaskChunks(1)]_vars

\* C28: when embed_and_store_chunks(chunks) has returned, failed_chunks holds
\* only chunks of that call's input, each at most once, also when an earlier
\* call on the same instance ended with chunks still failing.
C28_FailedOnlyOfThisCall ==
    Returned(1) =>
        /\ Range(failed_chunks[1]) \subseteq Range(chunks[1])
        /\ Cardinality(Range(failed_chunks[1])) = Len(failed_chunks[1])

\* The positions in the prompt of the lines of one kind.
LinesOfKind(kind) == {k \in 1..Len(lines) : lines[k].kind = kind}
ExpandedDocs == {expanded[i][1] : i \in 1..Len(expanded)}

\* C26: in the prompt built from the expanded list, the header of each
\* document appears exactly once and the chunks of a document are contiguous
\* below it; every selected chunk appears exactly once, between a
\* "--- chunk N ---" and a "--- end chunk N ---" line with the same N, and N
\* runs from 1 to the number of selected chunks in the order of the list.
C26_PromptLayout ==
    (cpc = "returned" /\ response = "prompt") =>
        /\ \A d \in ExpandedDocs :
              Cardinality({k \in LinesOfKind("book") : lines[k].document_id = d}) = 1
        /\ Cardinality(LinesOfKind("book")) = Cardinality(ExpandedDocs)
        /\ \A k \in LinesOfKind("text") :
              \E h \in LinesOfKind("book") :
                  /\ h < k
                  /\ lines[h].document_id = lines[k].document_id
                  /\ \A g \in LinesOfKind("book") : ~(h < g /\ g < k)
        /\ Range(expanded) = Range(selected)
        /\ Cardinality(LinesOfKind("text")) = Len(expanded)
        /\ Cardinality(LinesOfKind("chunk")) = Len(expanded)
        /\ Cardinality(LinesOfKind("end chunk")) = Len(expanded)
        /\ \A i \in 1..Len(expanded) :
              \E k \in LinesOfKind("text") :
                  /\ lines[k] = ChunkBody(expanded[i])
                  /\ \A j \in LinesOfKind("text") : lines[j] = lines[k] => j = k
                  /\ lines[k - 1] = ChunkStart(i)
                  /\ lines[k + 1] = ChunkEnd(i)

C26_Witness ==
    /\ cpc = "returned"
    /\ response = "prompt"
    /\ ExpandedDocs = {"doc1", "doc2"}
    /\ Len(expanded) = 4
    /\ Cardinality(LinesOfKind("book")) = 2
    /\ Len(lines) = 16

FailedLookup == \E k \in 1..Len(lookups) : ~lookups[k].found

\* C27: a neighbour lookup that finds no record, or raises, only skips that
\* neighbour: the loop goes on to its normal end, every primary hit is in the
\* expanded list, and run returns a non-empty prompt that contains every
\* primary hit. (run ends otherwise only where it would without the failed
\* lookup: when a selected chunk belongs to a document missing from the
\* agent's documents, which _build_prompt cannot title.)
C27_LookupMissTolerated ==
    FailedLookup =>
        /\ cpc \in {"neighbours", "build", "returned", "raised"}
        /\ cpc # "neighbours" =>
              /\ hit_i > Len(hits) \/ total_tokens(selected) >= MAX_TOKENS
              /\ \A i \in 1..Len(hits) : hits[i] \in Range(expanded)
        /\ cpc = "raised" => \E i \in 1..Len(expanded) : expanded[i][1] \notin agent_docs
        /\ cpc = "returned" =>
              /\ response = "prompt"
              /\ \A i \in 1..Len(hits) : ChunkBody(hits[i]) \in Range(lines)

C27_Witness ==
    /\ cpc = "returned"
    /\ response = "prompt"
    /\ hits = << <<"doc1", 1>>, <<"doc1", 3>> >>
    /\ Len(lookups) = 4
    /\ lookups[1] = [hash |-> ChunkHash(<<"doc1", 0>>), found |-> FALSE]
    /\ expanded = << <<"doc1", 1>>, <<"doc1", 2>>, <<"doc1", 3>>, <<"doc1", 4>> >>

\* C29: a prompt run returns holds only chunks of documents attached to the
\* agent, and when a hit or a fetched neighbour belongs to a document that is
\* not attached, run returns the empty response instead of a prompt.
C29_UnattachedGivesEmpty ==
    /\ (cpc = "returned" /\ response = "prompt") =>
          \A i \in 1..Len(expanded) : expanded[i][1] \in agent_docs
    /\ (cpc \in {"returned", "raised"} /\ ExpandedDocs \ agent_docs # {}) =>
          (cpc = "returned" /\ response = "")

\* C30 as stated: _needs_rag(query) is true exactly when the query has at
\* least 4 words; the acknowledgment test never changes the result.
C30_WordCountOnly ==
    cpc # "start" => ((cpc = "docs") <=> Len(query) >= 4)

\* C30 as amended: _needs_rag(query) is true only for queries of at least 4
\* words, and false for such a query exactly when its lowercase form without
\* leading and trailing spaces and ".", ",", "!" is one of the phrases: the
\* phrases have fewer than 4 words each, but split() counts detached
\* punctuation as words and strip() removes it.
C30_WordCountAndPhrase ==
    /\ \A p \in simple_phrases : Len(p) < 4
    /\ cpc # "start" =>
          /\ cpc = "docs" => Len(query) >= 4
          /\ Len(query) >= 4 =>
                ((cpc = "returned") <=> LowerStrip(query) \in simple_phrases)

C30_Witness ==
    /\ cpc = "returned"
    /\ query = <<"Hi", "!", "!", "!">>
    /\ response = ""

====
